---- MODULE Spec2Model ----
(***************************************************************************)
(* Restaurant POS backend (Express handlers over PostgreSQL).              *)
(*                                                                         *)
(* The database is modelled as one set of rows per table.  Every request   *)
(* handler is a sequence of SQL statements; a handler that opens a         *)
(* transaction (BEGIN ... COMMIT) keeps its uncommitted writes in tx[p]    *)
(* until COMMIT applies them or ROLLBACK discards them.  Isolation is      *)
(* PostgreSQL's default READ COMMITTED: a statement sees the committed     *)
(* rows plus the writes of its own transaction, UPDATE and DELETE take a   *)
(* row lock that is held until the transaction ends, and a statement that  *)
(* finds a target row locked waits and then re-checks only the rows it     *)
(* had found when it started.                                              *)
(*                                                                         *)
(* Money: columns are DECIMAL(10,2) and hold integer cents.  Values that   *)
(* JavaScript computes before they are stored are exact decimals in finer  *)
(* units (mills for prices, 1/100000 cent for discounted amounts); the     *)
(* database rounds them half away from zero when it stores them.  The      *)
(* binary rounding error of IEEE doubles is not modelled.                  *)
(***************************************************************************)
EXTENDS Integers, Sequences, FiniteSets, TLC

(* ------------------------------ bounds --------------------------------- *)

\* Requests accepted in one behaviour.
MaxOps == 3

\* Concurrent request slots (requests in flight at the same time).
Procs == {1, 2}

(* --------------------------- program constants ------------------------- *)

\* SQL NULL (also a missing / undefined field of a request body).
NULL == -1

\* Mills per cent: prices arrive as JSON numbers, columns keep 2 decimals.
MillsPerCent == 10

\* discounts.value is DECIMAL(5,2): the value is held in hundredths.
ValueScale == 100

\* Connections of the pg Pool (new Pool() without max: the default).
PoolMax == 10

\* users rows (init.sql seeds admin; the register route adds more).
Users == {1, 2}

\* menu_items rows known to the menu lookup.
MenuItems == {1, 2}

Statuses == {"pending", "completed", "cancelled"}

\* HTTP status the routes give to a request body they reject
\* (res.status(400) in authRoutes, reportRoutes and shiftRoutes).
BadRequest == 400

\* payment_method values of a request body; NonString stands for a JSON
\* value without a toLowerCase method (a number).
NonString == "<number>"
Methods == {"cash", "CASH", "card", "qris", NonString}

\* Fine units per cent of newTotalAmount * (value / 100) with newTotalAmount
\* in mills and value in hundredths of a percent.
FinePerCent == MillsPerCent * ValueScale * 100

\* The discounts table (rows are managed by discountRoutes, not modelled):
\* value is in hundredths (1000 = 10.00).
Discounts ==
    { [discount_id |-> 1, discount_type |-> "percentage",   value |-> 1000,  is_active |-> TRUE,
       min_amount_threshold |-> NULL, valid_from |-> NULL, valid_until |-> NULL],
      [discount_id |-> 2, discount_type |-> "percentage",   value |-> 2500,  is_active |-> TRUE,
       min_amount_threshold |-> NULL, valid_from |-> NULL, valid_until |-> NULL],
      [discount_id |-> 3, discount_type |-> "fixed_amount", value |-> 2000,  is_active |-> TRUE,
       min_amount_threshold |-> NULL, valid_from |-> NULL, valid_until |-> NULL],
      [discount_id |-> 4, discount_type |-> "percentage",   value |-> 1000,  is_active |-> FALSE,
       min_amount_threshold |-> NULL, valid_from |-> NULL, valid_until |-> NULL],
      [discount_id |-> 5, discount_type |-> "percentage",   value |-> 1000,  is_active |-> TRUE,
       min_amount_threshold |-> 5000, valid_from |-> NULL, valid_until |-> NULL],
      [discount_id |-> 6, discount_type |-> "percentage",   value |-> 1000,  is_active |-> TRUE,
       min_amount_threshold |-> NULL, valid_from |-> NULL, valid_until |-> 0] }

(* ------------------------------ helpers -------------------------------- *)

\* PostgreSQL numeric rounding (half away from zero) of n/d, d > 0.
RoundDiv(n, d) ==
    IF n >= 0 THEN (2 * n + d) \div (2 * d)
              ELSE -((2 * (-n) + d) \div (2 * d))

\* A JavaScript amount in mills stored in a DECIMAL(10,2) column.
Round2(mills) == RoundDiv(mills, MillsPerCent)

\* SUM(field) over a set of rows.
RECURSIVE SumField(_, _)
SumField(S, f) ==
    IF S = {} THEN 0
    ELSE LET x == CHOOSE y \in S : TRUE
         IN  x[f] + SumField(S \ {x}, f)

\* calculateOrderTotals over request items (unit_price in mills): mills.
RECURSIVE calculateOrderTotals(_)
calculateOrderTotals_firstItemOnly(items) ==
    IF items = <<>> THEN 0
    ELSE Head(items).quantity * Head(items).unit_price

calculateOrderTotals(items) ==
    IF items = <<>> THEN 0
    ELSE Head(items).quantity * Head(items).unit_price
         + calculateOrderTotals(Tail(items))

\* A handler that takes the total of an update without items to be 0.
calculateStoredTotals_zero(rows) == 0

\* calculateOrderTotals over stored order_items rows (unit_price in cents,
\* as node-postgres returns the column): mills.
RECURSIVE calculateStoredTotals(_)
calculateStoredTotals(rows) ==
    IF rows = {} THEN 0
    ELSE LET x == CHOOSE y \in rows : TRUE
         IN  x.quantity * x.unit_price * MillsPerCent
             + calculateStoredTotals(rows \ {x})

(* ------------------------------- state --------------------------------- *)

VARIABLES
    orders,           \* rows [order_id, status, total_amount, discount_amount, final_amount]
    order_items,      \* rows [order_item_id, order_id, item_id, quantity, unit_price, item_total]
    order_discounts,  \* rows [order_discount_id, order_id, discount_id, applied_value]
    payments,         \* rows [payment_id, order_id, payment_method, amount, cashier_id]
    cashier_shifts,   \* rows [shift_id, user_id, shift_end, opening_cash, closing_cash,
                      \*       cash_in, cash_out, sales_amount_cash, sales_amount_card,
                      \*       reconciled, notes]
    seq,              \* next value of each SERIAL column
    req,              \* per slot: the handler in flight, its arguments and locals
                      \* (overlap, active and committed are history fields)
    tx,               \* per slot: the uncommitted writes and locks of its transaction
    poolFree,         \* idle connections of the pool
    deployed,         \* which revision of paymentRoutes.js is mounted: "tx" or "auth"
    nops,             \* requests accepted so far (also the clock of CURRENT_TIMESTAMP)
    last,             \* the most recent HTTP response [op, code, id] and, for an
                      \* error, the message the handler logs (err)
    toCompleted,      \* history: per order_id, the committed changes of status
                      \* from another value to completed
    ledger            \* history: every payment ever committed, with the shifts
                      \* its UPDATE incremented and the payments of the same
                      \* order that were in flight together with it

db == <<orders, order_items, order_discounts, payments, cashier_shifts>>
vars == <<orders, order_items, order_discounts, payments, cashier_shifts,
          seq, req, tx, poolFree, deployed, nops, last, toCompleted, ledger>>

IdleReq ==
    [op |-> "idle", pc |-> "idle", order_id |-> 0, method |-> "", amount |-> 0,
     cashier_id |-> NULL, items |-> <<>>, discount_id |-> NULL, user_id |-> 0,
     opening_cash |-> 0, final |-> 0, newTotal |-> 0, discount |-> 0,
     targets |-> {}, id |-> 0, overlap |-> {}, active |-> {}, committed |-> {}]

EmptyTx ==
    [payments |-> {}, order_items |-> {}, del_items |-> {}, order_discounts |-> {},
     del_discounts |-> {}, orders |-> {}, cashier_shifts |-> {}, keyshare |-> {}]

NoResponse == [op |-> "none", code |-> 0, id |-> 0, err |-> "", body |-> <<>>]
Response(op, code, id, err) ==
    [op |-> op, code |-> code, id |-> id, err |-> err, body |-> <<>>]

EmptyDb ==
    /\ orders = {}
    /\ order_items = {}
    /\ order_discounts = {}
    /\ payments = {}
    /\ cashier_shifts = {}
    /\ seq = [orders |-> 1, order_items |-> 1, order_discounts |-> 1,
              payments |-> 1, cashier_shifts |-> 1]
    /\ toCompleted = << >>
    /\ ledger = {}

NoRequests ==
    /\ req = [p \in Procs |-> IdleReq]
    /\ tx = [p \in Procs |-> EmptyTx]
    /\ poolFree = PoolMax
    /\ nops = 0
    /\ last = NoResponse

AllIdle == \A p \in Procs : req[p].op = "idle"

(* ------------------------- rows, locks, visibility --------------------- *)

OrderRows(o) == {r \in orders : r.order_id = o}
OrderOf(o) == CHOOSE r \in orders : r.order_id = o
ItemsOf(o) == {r \in order_items : r.order_id = o}
DiscountsOf(o) == {r \in order_discounts : r.order_id = o}
PaymentsOf(o) == {r \in payments : r.order_id = o}
\* A lookup of the user's shifts without the condition shift_end IS NULL.
ActiveShiftsOf_anyShift(u) == {s \in cashier_shifts : s.user_id = u}
ActiveShiftsOf(u) == {s \in cashier_shifts : s.user_id = u /\ s.shift_end = NULL}

Ids(rows, field) == {r[field] : r \in rows}

\* Row locks held by the transactions of the other slots.
OrderLockedByOther(p, o) ==
    \E q \in Procs \ {p} : o \in Ids(tx[q].orders, "order_id")
OrderKeyShared(o) == \E q \in Procs : o \in tx[q].keyshare
\* An UPDATE that takes no row lock (a read of the counter followed by a
\* write of the new value).
ShiftLockedByOther_noRowLock(p, s) == FALSE

ShiftLockedByOther(p, s) ==
    \E q \in Procs \ {p} : s \in Ids(tx[q].cashier_shifts, "shift_id")
ItemLockedByOther(p, i) == \E q \in Procs \ {p} : i \in tx[q].del_items
DiscountLockedByOther(p, i) == \E q \in Procs \ {p} : i \in tx[q].del_discounts

\* Rows replaced by new versions with the same key.
Replace(rows, news, field) ==
    {r \in rows : r[field] \notin Ids(news, field)} \cup news

\* Status changes to completed that committing `news` makes.
CompletedBy(news) ==
    {n.order_id : n \in {m \in news : m.status = "completed"
                          /\ \E r \in orders : r.order_id = m.order_id
                                               /\ r.status # "completed"}}

CountCompleted(news) ==
    [o \in DOMAIN toCompleted |->
        toCompleted[o] + (IF o \in CompletedBy(news) THEN 1 ELSE 0)]

(* ------------------------- transactions (pg client) -------------------- *)

\* A new request takes the lowest idle slot (slots are interchangeable).
FreeSlot(p) ==
    /\ req[p].op = "idle"
    /\ \A q \in Procs : q < p => req[q].op # "idle"

Accept == nops < MaxOps

\* COMMIT: the writes of tx[p] become the committed rows, all at once.
COMMIT(p) ==
    /\ orders' = Replace(orders, tx[p].orders, "order_id")
    /\ order_items' =
          {r \in order_items : r.order_item_id \notin tx[p].del_items}
             \cup tx[p].order_items
    /\ order_discounts' =
          {r \in order_discounts : r.order_discount_id \notin tx[p].del_discounts}
             \cup tx[p].order_discounts
    /\ payments' = payments \cup tx[p].payments
    /\ cashier_shifts' = Replace(cashier_shifts, tx[p].cashier_shifts, "shift_id")
    /\ toCompleted' = CountCompleted(tx[p].orders)
    /\ ledger' = ledger \cup
          {[payment_id |-> r.payment_id, order_id |-> r.order_id,
            payment_method |-> r.payment_method, amount |-> r.amount,
            cashier_id |-> r.cashier_id,
            shifts |-> req[p].active,
            overlap |-> req[p].overlap] : r \in tx[p].payments}
    /\ tx' = [tx EXCEPT ![p] = EmptyTx]

\* A catch block that ends the transaction without discarding its writes.
ROLLBACK_keepsWrites(p) == COMMIT(p)

\* ROLLBACK: the writes of tx[p] are discarded and its locks released.
ROLLBACK(p) ==
    /\ UNCHANGED <<db, toCompleted, ledger>>
    /\ tx' = [tx EXCEPT ![p] = EmptyTx]

\* The HTTP response ends the request.
Reply(p, op, code, id, err) ==
    /\ req' = [req EXCEPT ![p] = IdleReq]
    /\ last' = Response(op, code, id, err)

\* client.release() and the HTTP response.
Respond(p, op, code, id, err) ==
    /\ Reply(p, op, code, id, err)
    /\ poolFree' = poolFree + 1

\* catch (err) { ROLLBACK; console.error(err.message); 500 'Server Error' }
\* finally { release }
Fail(p, op, id, err) ==
    /\ ROLLBACK(p)
    /\ Respond(p, op, 500, id, err)

(* ------------------ recordPayment: POST /api/payments ------------------ *)

PaymentRow(id, o, m, a, c) ==
    [payment_id |-> id, order_id |-> o, payment_method |-> m, amount |-> a,
     cashier_id |-> c]

\* INSERT INTO payments: order_id REFERENCES orders, payment_method NOT NULL,
\* CHECK (amount > 0), cashier_id REFERENCES users.
PaymentInsertOk(o, m, a, c) ==
    /\ OrderRows(o) # {}
    /\ a > 0
    /\ c = NULL \/ c \in Users

\* History: the payments of order o whose requests are in flight.
InFlightPayments(o) ==
    {req[q].id : q \in {r \in Procs : req[r].op = "recordPayment"
                                       /\ req[r].order_id = o}}

\* pool.connect(), BEGIN and the INSERT of the payment row.  The INSERT
\* draws payment_id from the sequence whether or not it succeeds.
recordPayment_insert(p, o, m, a, c) ==
    /\ FreeSlot(p) /\ Accept /\ poolFree > 0
    /\ nops' = nops + 1
    /\ seq' = [seq EXCEPT !.payments = @ + 1]
    /\ UNCHANGED deployed
    /\ IF PaymentInsertOk(o, m, a, c)
       THEN /\ tx' = [tx EXCEPT ![p].payments = {PaymentRow(seq.payments, o, m, a, c)},
                                ![p].keyshare = {o}]
            /\ req' = [q \in Procs |->
                  IF q = p
                  THEN [IdleReq EXCEPT !.op = "recordPayment",
                                       !.pc = IF c # NULL THEN "shift" ELSE "readFinal",
                                       !.order_id = o, !.method = m, !.amount = a,
                                       !.cashier_id = c, !.id = seq.payments,
                                       !.overlap = InFlightPayments(o)]
                  ELSE IF req[q].op = "recordPayment" /\ req[q].order_id = o
                       THEN [req[q] EXCEPT !.overlap = @ \cup {seq.payments}]
                       ELSE req[q]]
            /\ poolFree' = poolFree - 1
            /\ UNCHANGED <<db, toCompleted, ledger, last>>
       ELSE /\ UNCHANGED <<db, toCompleted, ledger, tx, req, poolFree>>
            /\ last' = Response("recordPayment", 500, seq.payments,
                                IF a <= 0 THEN "check constraint" ELSE "foreign key")

\* String.prototype.toLowerCase on the payment methods above.
toLowerCase(m) == IF m = "CASH" THEN "cash" ELSE m

\* The column chosen by payment_method === 'cash', without toLowerCase().
SalesColumn_caseSensitive(m) ==
    IF m = "cash" THEN "sales_amount_cash" ELSE "sales_amount_card"

\* payment_method.toLowerCase() === 'cash' selects the column.
SalesColumn(m) ==
    IF toLowerCase(m) = "cash" THEN "sales_amount_cash" ELSE "sales_amount_card"

\* An UPDATE that takes the amount off the column.
ShiftIncrement_subtracts(rows, m, a) ==
    {[s EXCEPT ![SalesColumn(m)] = @ - a] : s \in rows}

\* The new row versions UPDATE cashier_shifts SET <column> = <column> + $1 makes.
ShiftIncrement(rows, m, a) ==
    {[s EXCEPT ![SalesColumn(m)] = @ + a] : s \in rows}

\* A handler that treats an UPDATE of no cashier_shifts row as an error.
recordPayment_shift_requiresShift(p) ==
    /\ req[p].op = "recordPayment" /\ req[p].pc = "shift"
    /\ UNCHANGED <<seq, deployed, nops>>
    /\ LET targets == ActiveShiftsOf(req[p].cashier_id)
       IN  IF targets = {}
           THEN Fail(p, "recordPayment", req[p].id, "No active shift")
           ELSE /\ tx' = [tx EXCEPT ![p].cashier_shifts =
                            ShiftIncrement(targets, req[p].method, req[p].amount)]
                /\ req' = [req EXCEPT ![p].pc = "readFinal",
                                      ![p].active = Ids(targets, "shift_id")]
                /\ UNCHANGED <<db, toCompleted, ledger, poolFree, last>>

\* if (cashier_id): UPDATE cashier_shifts ... WHERE user_id = $2 AND shift_end IS NULL.
\* A target row locked by another transaction makes the statement wait.
recordPayment_shift(p) ==
    /\ req[p].op = "recordPayment" /\ req[p].pc = "shift"
    /\ UNCHANGED <<seq, deployed, nops>>
    /\ IF req[p].method = NonString
       THEN Fail(p, "recordPayment", req[p].id, "toLowerCase is not a function")
       ELSE LET targets == ActiveShiftsOf(req[p].cashier_id)
            IN  /\ UNCHANGED <<db, toCompleted, ledger, poolFree, last>>
                /\ IF \E s \in targets : ShiftLockedByOther(p, s.shift_id)
                   THEN /\ req' = [req EXCEPT ![p].pc = "shiftWait",
                                              ![p].targets = Ids(targets, "shift_id")]
                        /\ UNCHANGED tx
                   ELSE /\ tx' = [tx EXCEPT ![p].cashier_shifts =
                                    ShiftIncrement(targets, req[p].method, req[p].amount)]
                        /\ req' = [req EXCEPT ![p].pc = "readFinal",
                                              ![p].active = Ids(targets, "shift_id")]

\* The waiting UPDATE goes on once the rows are unlocked: it re-checks the
\* WHERE clause on the latest version of the rows it had found.
recordPayment_shiftResume(p) ==
    /\ req[p].op = "recordPayment" /\ req[p].pc = "shiftWait"
    /\ \A s \in req[p].targets : ~ShiftLockedByOther(p, s)
    /\ LET targets == {s \in cashier_shifts :
                          s.shift_id \in req[p].targets /\ s.shift_end = NULL}
       IN  /\ tx' = [tx EXCEPT ![p].cashier_shifts =
                        ShiftIncrement(targets, req[p].method, req[p].amount)]
           /\ req' = [req EXCEPT ![p].pc = "readFinal", ![p].targets = {},
                                 ![p].active = Ids(targets, "shift_id")]
    /\ UNCHANGED <<db, toCompleted, ledger, seq, deployed, nops, poolFree, last>>

\* SELECT final_amount FROM orders WHERE order_id = $1.  The transaction
\* has not written the orders row, so client.query and pool.query read the
\* same committed row; pool.query needs a further pool connection.
recordPayment_readFinal(p) ==
    /\ req[p].op = "recordPayment" /\ req[p].pc = "readFinal"
    /\ deployed = "auth" => poolFree > 0
    /\ UNCHANGED <<seq, deployed, nops>>
    /\ IF OrderRows(req[p].order_id) = {}
       THEN Fail(p, "recordPayment", req[p].id, "Order not found for payment.")
       ELSE /\ req' = [req EXCEPT ![p].pc = "readSum",
                                  ![p].final = OrderOf(req[p].order_id).final_amount]
            /\ UNCHANGED <<db, toCompleted, ledger, tx, poolFree, last>>

\* SELECT SUM(amount) FROM payments WHERE order_id = $1: through the
\* transaction's client the sum includes its own uncommitted payment,
\* through pool.query (another connection) it holds committed rows only.
TotalPaid(p, o) ==
    IF deployed = "tx"
    THEN SumField(PaymentsOf(o) \cup {r \in tx[p].payments : r.order_id = o}, "amount")
    ELSE SumField(PaymentsOf(o), "amount")

\* A completion check that issues the UPDATE whatever the sum is.
recordPayment_readSum_alwaysCompletes(p) ==
    /\ req[p].op = "recordPayment" /\ req[p].pc = "readSum"
    /\ deployed = "auth" => poolFree > 0
    /\ req' = [req EXCEPT ![p].pc = "status"]
    /\ UNCHANGED <<db, toCompleted, ledger, seq, deployed, nops, tx, poolFree, last>>

recordPayment_readSum(p) ==
    /\ req[p].op = "recordPayment" /\ req[p].pc = "readSum"
    /\ deployed = "auth" => poolFree > 0
    /\ req' = [req EXCEPT ![p].pc =
                  IF TotalPaid(p, req[p].order_id) >= req[p].final
                  THEN "status" ELSE "commit"]
    /\ UNCHANGED <<db, toCompleted, ledger, seq, deployed, nops, tx, poolFree, last>>

\* UPDATE orders SET status = 'completed' WHERE order_id = $2: waits while
\* another transaction holds the row lock.
recordPayment_status(p) ==
    /\ req[p].op = "recordPayment" /\ req[p].pc = "status"
    /\ ~OrderLockedByOther(p, req[p].order_id)
    /\ tx' = [tx EXCEPT ![p].orders =
                 {[r EXCEPT !.status = "completed"] : r \in OrderRows(req[p].order_id)}]
    /\ req' = [req EXCEPT ![p].pc = "commit"]
    /\ UNCHANGED <<db, toCompleted, ledger, seq, deployed, nops, poolFree, last>>

\* COMMIT; 201 with the payment row.
recordPayment_commit(p) ==
    /\ req[p].op = "recordPayment" /\ req[p].pc = "commit"
    /\ COMMIT(p)
    /\ Respond(p, "recordPayment", 201, req[p].id, "")
    /\ UNCHANGED <<seq, deployed, nops>>

recordPayment(p) ==
    \/ recordPayment_shift(p)
    \/ recordPayment_shiftResume(p)
    \/ recordPayment_readFinal(p)
    \/ recordPayment_readSum(p)
    \/ recordPayment_status(p)
    \/ recordPayment_commit(p)

(* --------------------- createOrder: POST /api/orders ------------------- *)

\* SELECT item_name FROM menu_items WHERE item_id = $1 finds a row.
Known(item) == item.item_id \in MenuItems

\* CHECK (quantity > 0), CHECK (unit_price >= 0) of order_items.
ItemChecksOk(item) == item.quantity > 0 /\ Round2(item.unit_price) >= 0

\* Index of the first item the loop fails on, 0 when every item is stored.
FirstBad(items) ==
    IF \A i \in 1..Len(items) : Known(items[i]) /\ ItemChecksOk(items[i])
    THEN 0
    ELSE CHOOSE i \in 1..Len(items) :
            /\ ~(Known(items[i]) /\ ItemChecksOk(items[i]))
            /\ \A j \in 1..(i - 1) : Known(items[j]) /\ ItemChecksOk(items[j])

\* order_item_id values the loop draws: one per INSERT it reaches.
ItemIdsDrawn(items) ==
    IF FirstBad(items) = 0 THEN Len(items)
    ELSE (FirstBad(items) - 1) + (IF Known(items[FirstBad(items)]) THEN 1 ELSE 0)

\* The order_items rows of one request: unit_price and item_total
\* (item.quantity * item.unit_price) are each rounded by their column.
ItemRows(o, items, firstId) ==
    {[order_item_id |-> firstId + i - 1, order_id |-> o,
      item_id |-> items[i].item_id, quantity |-> items[i].quantity,
      unit_price |-> Round2(items[i].unit_price),
      item_total |-> Round2(items[i].quantity * items[i].unit_price)]
        : i \in 1..Len(items)}

\* A handler whose catch block leaves out the ROLLBACK: the rows inserted
\* before the throw stay.
createOrder_keepsResolved(items) ==
    /\ Accept /\ poolFree > 0
    /\ nops' = nops + 1
    /\ LET id == seq.orders
           kept == IF FirstBad(items) = 0 THEN items
                   ELSE SubSeq(items, 1, FirstBad(items) - 1)
       IN  /\ seq' = [seq EXCEPT !.orders = @ + 1,
                                 !.order_items = @ + ItemIdsDrawn(items)]
           /\ orders' = orders \cup
                 {[order_id |-> id, status |-> "pending",
                   total_amount |-> Round2(calculateOrderTotals(items)),
                   discount_amount |-> 0,
                   final_amount |-> Round2(calculateOrderTotals(items))]}
           /\ order_items' = order_items \cup ItemRows(id, kept, seq.order_items)
           /\ toCompleted' = toCompleted @@ (id :> 0)
           /\ last' = Response("createOrder", IF FirstBad(items) = 0 THEN 201 ELSE 500,
                               id, "")
    /\ UNCHANGED <<order_discounts, payments, cashier_shifts, req, tx, poolFree, deployed, ledger>>

\* The whole transaction of createOrder: it reads no row another request
\* writes, and its rows become visible together at COMMIT.
createOrder(items) ==
    /\ Accept /\ poolFree > 0
    /\ nops' = nops + 1
    /\ LET id == seq.orders
           total_amount == calculateOrderTotals(items)
       IN  /\ seq' = [seq EXCEPT !.orders = @ + 1,
                                 !.order_items = @ + ItemIdsDrawn(items)]
           /\ IF FirstBad(items) = 0
              THEN /\ orders' = orders \cup
                        {[order_id |-> id, status |-> "pending",
                          total_amount |-> Round2(total_amount),
                          discount_amount |-> 0,
                          final_amount |-> Round2(total_amount)]}
                   /\ order_items' = order_items \cup ItemRows(id, items, seq.order_items)
                   /\ toCompleted' = toCompleted @@ (id :> 0)
                   /\ last' = Response("createOrder", 201, id, "")
              ELSE /\ UNCHANGED <<orders, order_items, toCompleted>>
                   /\ last' = Response("createOrder", 500, id, "Menu item not found or rejected")
    /\ UNCHANGED <<order_discounts, payments, cashier_shifts, req, tx, poolFree, deployed, ledger>>

(* ---------------- setStatus: PUT /api/orders/:id/status ---------------- *)

\* One UPDATE through pool.query; it waits while a transaction holds the
\* row lock of the orders row.
\* A handler with a transition table: a completed order keeps its status
\* and the request is answered 400.
setStatus_keepsCompleted(o, status) ==
    /\ Accept /\ poolFree > 0
    /\ \A q \in Procs : o \notin Ids(tx[q].orders, "order_id")
    /\ nops' = nops + 1
    /\ LET open == {r \in OrderRows(o) : r.status # "completed"}
           news == {[r EXCEPT !.status = status] : r \in open}
       IN  /\ orders' = Replace(orders, news, "order_id")
           /\ toCompleted' = CountCompleted(news)
           /\ last' = Response("setStatus",
                               IF OrderRows(o) = {} THEN 404
                               ELSE IF news = {} THEN 400 ELSE 200, o, "")
    /\ UNCHANGED <<order_items, order_discounts, payments, cashier_shifts,
                   seq, req, tx, poolFree, deployed, ledger>>

\* An UPDATE that writes 'pending' whatever the request says.
setStatus_alwaysPending(o, status) ==
    /\ Accept /\ poolFree > 0
    /\ \A q \in Procs : o \notin Ids(tx[q].orders, "order_id")
    /\ nops' = nops + 1
    /\ LET news == {[r EXCEPT !.status = "pending"] : r \in OrderRows(o)}
       IN  /\ orders' = Replace(orders, news, "order_id")
           /\ toCompleted' = CountCompleted(news)
           /\ last' = Response("setStatus", IF news = {} THEN 404 ELSE 200, o, "")
    /\ UNCHANGED <<order_items, order_discounts, payments, cashier_shifts,
                   seq, req, tx, poolFree, deployed, ledger>>

setStatus(o, status) ==
    /\ Accept /\ poolFree > 0
    /\ \A q \in Procs : o \notin Ids(tx[q].orders, "order_id")
    /\ nops' = nops + 1
    /\ LET news == {[r EXCEPT !.status = status] : r \in OrderRows(o)}
       IN  /\ orders' = Replace(orders, news, "order_id")
           /\ toCompleted' = CountCompleted(news)
           /\ last' = Response("setStatus", IF news = {} THEN 404 ELSE 200, o, "")
    /\ UNCHANGED <<order_items, order_discounts, payments, cashier_shifts,
                   seq, req, tx, poolFree, deployed, ledger>>

(* -------------------- deleteOrder: DELETE /api/orders/:id -------------- *)

\* DELETE FROM orders; order_items, payments and order_discounts rows go
\* with it (ON DELETE CASCADE).  The statement waits for every lock on the
\* orders row (the key-share lock of an uncommitted child INSERT included)
\* and on the child rows.
\* A DELETE that takes the payments of every order with it.
deleteOrder_allPayments(o) ==
    /\ Accept /\ poolFree > 0
    /\ \A q \in Procs :
          /\ o \notin Ids(tx[q].orders, "order_id")
          /\ o \notin tx[q].keyshare
    /\ nops' = nops + 1
    /\ orders' = orders \ OrderRows(o)
    /\ order_items' = order_items \ ItemsOf(o)
    /\ order_discounts' = order_discounts \ DiscountsOf(o)
    /\ payments' = IF OrderRows(o) = {} THEN payments ELSE {}
    /\ last' = Response("deleteOrder", IF OrderRows(o) = {} THEN 404 ELSE 200, o, "")
    /\ UNCHANGED <<cashier_shifts, seq, req, tx, poolFree, deployed, toCompleted, ledger>>

\* A payments table whose order_id does not cascade (ON DELETE SET NULL
\* semantics are not modelled: the rows simply stay).
deleteOrder_keepsPayments(o) ==
    /\ Accept /\ poolFree > 0
    /\ \A q \in Procs :
          /\ o \notin Ids(tx[q].orders, "order_id")
          /\ o \notin tx[q].keyshare
    /\ nops' = nops + 1
    /\ orders' = orders \ OrderRows(o)
    /\ order_items' = order_items \ ItemsOf(o)
    /\ order_discounts' = order_discounts \ DiscountsOf(o)
    /\ payments' = payments
    /\ last' = Response("deleteOrder", IF OrderRows(o) = {} THEN 404 ELSE 200, o, "")
    /\ UNCHANGED <<cashier_shifts, seq, req, tx, poolFree, deployed, toCompleted, ledger>>

deleteOrder(o) ==
    /\ Accept /\ poolFree > 0
    /\ \A q \in Procs :
          /\ o \notin Ids(tx[q].orders, "order_id")
          /\ o \notin tx[q].keyshare
          /\ tx[q].del_items \cap Ids(ItemsOf(o), "order_item_id") = {}
          /\ tx[q].del_discounts \cap Ids(DiscountsOf(o), "order_discount_id") = {}
    /\ nops' = nops + 1
    /\ orders' = orders \ OrderRows(o)
    /\ order_items' = order_items \ ItemsOf(o)
    /\ order_discounts' = order_discounts \ DiscountsOf(o)
    /\ payments' = payments \ PaymentsOf(o)
    /\ last' = Response("deleteOrder", IF OrderRows(o) = {} THEN 404 ELSE 200, o, "")
    /\ UNCHANGED <<cashier_shifts, seq, req, tx, poolFree, deployed, toCompleted, ledger>>

(* --------------------- updateOrder: PUT /api/orders/:id ---------------- *)

\* pool.connect() and BEGIN of updateOrder, up to its first statement.
updateOrder_enter(p, o, items, d, pc, newTotal, targets) ==
    /\ FreeSlot(p) /\ Accept /\ poolFree > 0
    /\ nops' = nops + 1
    /\ poolFree' = poolFree - 1
    /\ req' = [req EXCEPT ![p] =
          [IdleReq EXCEPT !.op = "updateOrder", !.pc = pc, !.order_id = o,
                          !.items = items, !.discount_id = d, !.id = o,
                          !.newTotal = newTotal, !.targets = targets]]
    /\ UNCHANGED <<db, toCompleted, ledger, seq, deployed, last>>

\* items && items.length > 0: DELETE FROM order_items WHERE order_id = $1.
\* The statement finds the committed rows of the order; when another
\* transaction has locked one of them it waits.
updateOrder_deleteItems(p, o, items, d) ==
    /\ items # <<>>
    /\ LET targets == Ids(ItemsOf(o), "order_item_id")
       IN  IF \E i \in targets : ItemLockedByOther(p, i)
           THEN /\ updateOrder_enter(p, o, items, d, "deleteItemsWait", 0, targets)
                /\ tx' = tx
           ELSE /\ updateOrder_enter(p, o, items, d, "insertItems", 0, {})
                /\ tx' = [tx EXCEPT ![p].del_items = targets]

\* The waiting DELETE goes on once the rows are unlocked: it skips the rows
\* the other transaction deleted and does not see the rows it inserted.
updateOrder_deleteItemsResume(p) ==
    /\ req[p].op = "updateOrder" /\ req[p].pc = "deleteItemsWait"
    /\ \A i \in req[p].targets : ~ItemLockedByOther(p, i)
    /\ tx' = [tx EXCEPT ![p].del_items =
                 req[p].targets \cap Ids(order_items, "order_item_id")]
    /\ req' = [req EXCEPT ![p].pc = "insertItems", ![p].targets = {}]
    /\ UNCHANGED <<db, toCompleted, ledger, seq, deployed, nops, poolFree, last>>

\* for (const item of items): menu lookup, INSERT INTO order_items (order_id
\* REFERENCES orders), newTotalAmount += item.quantity * item.unit_price.
updateOrder_insertItems(p) ==
    /\ req[p].op = "updateOrder" /\ req[p].pc = "insertItems"
    /\ seq' = [seq EXCEPT !.order_items = @ +
                  IF OrderRows(req[p].order_id) = {} /\ Known(req[p].items[1])
                  THEN 1 ELSE ItemIdsDrawn(req[p].items)]
    /\ UNCHANGED <<deployed, nops>>
    /\ IF FirstBad(req[p].items) = 0 /\ OrderRows(req[p].order_id) # {}
       THEN /\ tx' = [tx EXCEPT ![p].order_items =
                         ItemRows(req[p].order_id, req[p].items, seq.order_items),
                                ![p].keyshare = {req[p].order_id}]
            /\ req' = [req EXCEPT ![p].pc = "deleteDiscounts",
                                  ![p].newTotal = calculateOrderTotals(req[p].items)]
            /\ UNCHANGED <<db, toCompleted, ledger, poolFree, last>>
       ELSE Fail(p, "updateOrder", req[p].order_id, "Menu item not found or rejected")

\* else: SELECT quantity, unit_price FROM order_items WHERE order_id = $1;
\* newTotalAmount = calculateOrderTotals(currentItems.rows).
updateOrder_readItems(p, o, d) ==
    /\ updateOrder_enter(p, o, <<>>, d, "deleteDiscounts",
                         calculateStoredTotals(ItemsOf(o)), {})
    /\ tx' = tx

\* DELETE FROM order_discounts WHERE order_id = $1 (waits like the DELETE
\* of the items).
AfterDeleteDiscounts(p) ==
    IF req[p].discount_id # NULL THEN "applyDiscount" ELSE "updateOrders"

\* A handler without the DELETE of the order's order_discounts rows.
updateOrder_deleteDiscounts_skipped(p) ==
    /\ req[p].op = "updateOrder" /\ req[p].pc = "deleteDiscounts"
    /\ req' = [req EXCEPT ![p].pc = AfterDeleteDiscounts(p)]
    /\ tx' = tx
    /\ UNCHANGED <<db, toCompleted, ledger, seq, deployed, nops, poolFree, last>>

updateOrder_deleteDiscounts(p) ==
    /\ req[p].op = "updateOrder" /\ req[p].pc = "deleteDiscounts"
    /\ LET targets == Ids(DiscountsOf(req[p].order_id), "order_discount_id")
       IN  IF \E i \in targets : DiscountLockedByOther(p, i)
           THEN /\ req' = [req EXCEPT ![p].pc = "deleteDiscountsWait",
                                      ![p].targets = targets]
                /\ tx' = tx
           ELSE /\ req' = [req EXCEPT ![p].pc = AfterDeleteDiscounts(p)]
                /\ tx' = [tx EXCEPT ![p].del_discounts = targets]
    /\ UNCHANGED <<db, toCompleted, ledger, seq, deployed, nops, poolFree, last>>

updateOrder_deleteDiscountsResume(p) ==
    /\ req[p].op = "updateOrder" /\ req[p].pc = "deleteDiscountsWait"
    /\ \A i \in req[p].targets : ~DiscountLockedByOther(p, i)
    /\ tx' = [tx EXCEPT ![p].del_discounts =
                 req[p].targets \cap Ids(order_discounts, "order_discount_id")]
    /\ req' = [req EXCEPT ![p].pc = AfterDeleteDiscounts(p), ![p].targets = {}]
    /\ UNCHANGED <<db, toCompleted, ledger, seq, deployed, nops, poolFree, last>>

\* SELECT * FROM discounts WHERE discount_id = $1 AND is_active = TRUE.
ActiveDiscount(d) == {x \in Discounts : x.discount_id = d /\ x.is_active}

\* newTotalAmount (mills) in fine units.
TotalFine(newTotal) == newTotal * (FinePerCent \div MillsPerCent)

\* discount_amount in fine units: newTotalAmount * (discount.value / 100)
\* for a percentage, discount.value for a fixed amount.
DiscountFine(newTotal, disc) ==
    IF disc.discount_type = "percentage" THEN newTotal * disc.value
    ELSE IF disc.discount_type = "fixed_amount"
         THEN disc.value * FinePerCent
         ELSE 0

\* if (discount_id): look the discount up, compute discount_amount, and
\* INSERT INTO order_discounts (order_id REFERENCES orders) its value.
updateOrder_applyDiscount(p) ==
    /\ req[p].op = "updateOrder" /\ req[p].pc = "applyDiscount"
    /\ UNCHANGED <<deployed, nops>>
    /\ IF ActiveDiscount(req[p].discount_id) = {}
       THEN /\ req' = [req EXCEPT ![p].pc = "updateOrders"]
            /\ UNCHANGED <<db, toCompleted, ledger, seq, tx, poolFree, last>>
       ELSE LET disc == CHOOSE x \in ActiveDiscount(req[p].discount_id) : TRUE
                amount == DiscountFine(req[p].newTotal, disc)
            IN  /\ seq' = [seq EXCEPT !.order_discounts = @ + 1]
                /\ IF OrderRows(req[p].order_id) = {}
                   THEN Fail(p, "updateOrder", req[p].order_id, "foreign key")
                   ELSE /\ tx' = [tx EXCEPT
                              ![p].order_discounts =
                                 {[order_discount_id |-> seq.order_discounts,
                                   order_id |-> req[p].order_id,
                                   discount_id |-> req[p].discount_id,
                                   applied_value |-> RoundDiv(amount, FinePerCent)]},
                              ![p].keyshare = {req[p].order_id}]
                        /\ req' = [req EXCEPT ![p].pc = "updateOrders",
                                              ![p].discount = amount]
                        /\ UNCHANGED <<db, toCompleted, ledger, poolFree, last>>

\* An UPDATE that also puts the order back to 'pending' when it rewrites
\* the amounts.
updateOrder_updateOrders_resetsStatus(p) ==
    /\ req[p].op = "updateOrder" /\ req[p].pc = "updateOrders"
    /\ ~OrderLockedByOther(p, req[p].order_id)
    /\ UNCHANGED <<seq, deployed, nops>>
    /\ IF OrderRows(req[p].order_id) = {}
       THEN /\ ROLLBACK(p)
            /\ Respond(p, "updateOrder", 404, req[p].order_id, "Order not found")
       ELSE /\ tx' = [tx EXCEPT ![p].orders =
                  {[r EXCEPT
                      !.status = "pending",
                      !.total_amount = Round2(req[p].newTotal),
                      !.discount_amount = RoundDiv(req[p].discount, FinePerCent),
                      !.final_amount =
                          RoundDiv(TotalFine(req[p].newTotal) - req[p].discount,
                                   FinePerCent)]
                     : r \in OrderRows(req[p].order_id)}]
            /\ req' = [req EXCEPT ![p].pc = "commit"]
            /\ UNCHANGED <<db, toCompleted, ledger, poolFree, last>>

\* UPDATE orders SET total_amount = $3, discount_amount = $4,
\* final_amount = $5 WHERE order_id = $6: each value is rounded by its own
\* column; final_amount is newTotalAmount - discount_amount before rounding.
\* No row: ROLLBACK and 404.
updateOrder_updateOrders(p) ==
    /\ req[p].op = "updateOrder" /\ req[p].pc = "updateOrders"
    /\ ~OrderLockedByOther(p, req[p].order_id)
    /\ UNCHANGED <<seq, deployed, nops>>
    /\ IF OrderRows(req[p].order_id) = {}
       THEN /\ ROLLBACK(p)
            /\ Respond(p, "updateOrder", 404, req[p].order_id, "Order not found")
       ELSE /\ tx' = [tx EXCEPT ![p].orders =
                  {[r EXCEPT
                      !.total_amount = Round2(req[p].newTotal),
                      !.discount_amount = RoundDiv(req[p].discount, FinePerCent),
                      !.final_amount =
                          RoundDiv(TotalFine(req[p].newTotal) - req[p].discount,
                                   FinePerCent)]
                     : r \in OrderRows(req[p].order_id)}]
            /\ req' = [req EXCEPT ![p].pc = "commit"]
            /\ UNCHANGED <<db, toCompleted, ledger, poolFree, last>>

\* COMMIT; 200 with the updated row.  History: the calls still in flight
\* for the same order note the items this call has committed.
updateOrder_commit(p) ==
    /\ req[p].op = "updateOrder" /\ req[p].pc = "commit"
    /\ COMMIT(p)
    /\ req' = [q \in Procs |->
                 IF q = p THEN IdleReq
                 ELSE IF /\ req[q].op = "updateOrder"
                         /\ req[q].order_id = req[p].order_id
                         /\ req[p].items # <<>>
                      THEN [req[q] EXCEPT !.committed = @ \cup {req[p].items}]
                      ELSE req[q]]
    /\ last' = Response("updateOrder", 200, req[p].order_id, "")
    /\ poolFree' = poolFree + 1
    /\ UNCHANGED <<seq, deployed, nops>>

(* ------------------------ shifts: /api/shifts -------------------------- *)

ShiftRow(id, u, opening) ==
    [shift_id |-> id, user_id |-> u, shift_end |-> NULL, opening_cash |-> opening,
     closing_cash |-> NULL, cash_in |-> 0, cash_out |-> 0, sales_amount_cash |-> 0,
     sales_amount_card |-> 0, reconciled |-> FALSE, notes |-> NULL]

\* A handler that inserts without looking for an active shift first.
startShift_check_noLookup(p, u, opening) ==
    /\ FreeSlot(p) /\ Accept /\ poolFree > 0
    /\ nops' = nops + 1
    /\ req' = [req EXCEPT ![p] =
          [IdleReq EXCEPT !.op = "startShift", !.pc = "insert",
                          !.user_id = u, !.opening_cash = opening]]
    /\ last' = last
    /\ UNCHANGED <<db, toCompleted, ledger, seq, tx, poolFree, deployed>>

\* POST /start, first query: SELECT ... WHERE user_id = $1 AND shift_end IS
\* NULL; a row found: 400.
startShift_check(p, u, opening) ==
    /\ FreeSlot(p) /\ Accept /\ poolFree > 0
    /\ nops' = nops + 1
    /\ IF ActiveShiftsOf(u) # {}
       THEN /\ last' = Response("startShift", 400, u, "User already has an active shift.")
            /\ req' = req
       ELSE /\ req' = [req EXCEPT ![p] =
                  [IdleReq EXCEPT !.op = "startShift", !.pc = "insert",
                                  !.user_id = u, !.opening_cash = opening]]
            /\ last' = last
    /\ UNCHANGED <<db, toCompleted, ledger, seq, tx, poolFree, deployed>>

\* POST /start, second query: INSERT INTO cashier_shifts (user_id,
\* opening_cash) (user_id REFERENCES users, opening_cash NOT NULL).
startShift_insert(p) ==
    /\ req[p].op = "startShift" /\ req[p].pc = "insert"
    /\ poolFree > 0
    /\ seq' = [seq EXCEPT !.cashier_shifts = @ + 1]
    /\ IF req[p].user_id \in Users /\ req[p].opening_cash # NULL
       THEN /\ cashier_shifts' = cashier_shifts \cup
                  {ShiftRow(seq.cashier_shifts, req[p].user_id, req[p].opening_cash)}
            /\ Reply(p, "startShift", 201, seq.cashier_shifts, "")
       ELSE /\ cashier_shifts' = cashier_shifts
            /\ Reply(p, "startShift", 500, seq.cashier_shifts, "constraint")
    /\ UNCHANGED <<orders, order_items, order_discounts, payments, toCompleted, ledger,
                   tx, poolFree, deployed, nops>>

\* An UPDATE without the condition shift_end IS NULL.
endShift_anyShift(s, closing_cash, notes) ==
    /\ Accept /\ poolFree > 0
    /\ \A q \in Procs : s \notin Ids(tx[q].cashier_shifts, "shift_id")
    /\ nops' = nops + 1
    /\ LET news == {[r EXCEPT !.shift_end = nops + 1, !.closing_cash = closing_cash,
                              !.notes = notes]
                      : r \in {x \in cashier_shifts : x.shift_id = s}}
       IN  /\ cashier_shifts' = Replace(cashier_shifts, news, "shift_id")
           /\ last' = Response("endShift", IF news = {} THEN 404 ELSE 200, s, "")
    /\ UNCHANGED <<orders, order_items, order_discounts, payments, toCompleted, ledger,
                   seq, req, tx, poolFree, deployed>>

\* PUT /end/:id: one UPDATE ... WHERE shift_id = $3 AND shift_end IS NULL;
\* it waits while a transaction holds the lock of the row.  No row: 404.
endShift(s, closing_cash, notes) ==
    /\ Accept /\ poolFree > 0
    /\ \A q \in Procs : s \notin Ids(tx[q].cashier_shifts, "shift_id")
    /\ nops' = nops + 1
    /\ LET news == {[r EXCEPT !.shift_end = nops + 1, !.closing_cash = closing_cash,
                              !.notes = notes]
                      : r \in {x \in cashier_shifts :
                                  x.shift_id = s /\ x.shift_end = NULL}}
       IN  /\ cashier_shifts' = Replace(cashier_shifts, news, "shift_id")
           /\ last' = Response("endShift", IF news = {} THEN 404 ELSE 200, s, "")
    /\ UNCHANGED <<orders, order_items, order_discounts, payments, toCompleted, ledger,
                   seq, req, tx, poolFree, deployed>>

\* SET column = $n: an omitted value overwrites the column with NULL.
COALESCE_givenOnly(v, column) == v

\* COALESCE($n, column).
COALESCE(v, column) == IF v # NULL THEN v ELSE column

\* An UPDATE that also clears shift_end.
adjustShift_reopens(s, f) ==
    /\ Accept /\ poolFree > 0
    /\ \A q \in Procs : s \notin Ids(tx[q].cashier_shifts, "shift_id")
    /\ nops' = nops + 1
    /\ LET news == {[r EXCEPT !.shift_end = NULL,
                              !.cash_in = COALESCE(f.cash_in, @),
                              !.cash_out = COALESCE(f.cash_out, @)]
                      : r \in {x \in cashier_shifts : x.shift_id = s}}
       IN  /\ cashier_shifts' = Replace(cashier_shifts, news, "shift_id")
           /\ last' = Response("adjustShift", IF news = {} THEN 404 ELSE 200, s, "")
    /\ UNCHANGED <<orders, order_items, order_discounts, payments, toCompleted, ledger,
                   seq, req, tx, poolFree, deployed>>

\* PUT /:id: one UPDATE that sets opening_cash, closing_cash, cash_in,
\* cash_out, reconciled and notes to COALESCE(given, stored).  No row: 404.
adjustShift(s, f) ==
    /\ Accept /\ poolFree > 0
    /\ \A q \in Procs : s \notin Ids(tx[q].cashier_shifts, "shift_id")
    /\ nops' = nops + 1
    /\ LET news == {[r EXCEPT !.opening_cash = COALESCE(f.opening_cash, @),
                              !.closing_cash = COALESCE(f.closing_cash, @),
                              !.cash_in = COALESCE(f.cash_in, @),
                              !.cash_out = COALESCE(f.cash_out, @),
                              !.reconciled = IF f.reconciled # NULL
                                             THEN f.reconciled = 1 ELSE @,
                              !.notes = COALESCE(f.notes, @)]
                      : r \in {x \in cashier_shifts : x.shift_id = s}}
       IN  /\ cashier_shifts' = Replace(cashier_shifts, news, "shift_id")
           /\ last' = Response("adjustShift", IF news = {} THEN 404 ELSE 200, s, "")
    /\ UNCHANGED <<orders, order_items, order_discounts, payments, toCompleted, ledger,
                   seq, req, tx, poolFree, deployed>>

(* ------------------------ reports: /api/reports ------------------------ *)

\* A handler that reports the difference for every shift, closed or not,
\* with an unset closing_cash counted as 0.
ShiftReport_always(shift) ==
    [shift_id |-> shift.shift_id,
     expected_cash_balance |->
        shift.opening_cash + shift.sales_amount_cash + shift.cash_in - shift.cash_out,
     cash_discrepancy |->
        <<(IF shift.closing_cash # NULL THEN shift.closing_cash ELSE 0)
            - (shift.opening_cash + shift.sales_amount_cash
                 + shift.cash_in - shift.cash_out)>>]

\* The body of the shift summary: expected_cash_balance = (opening_cash +
\* sales_amount_cash + cash_in - cash_out).toFixed(2), and cash_discrepancy
\* = (closing_cash - expected_cash_balance).toFixed(2) when closing_cash is
\* not null, else null (here: the empty sequence).
ShiftReport(shift) ==
    LET expected_cash_balance ==
            Round2((shift.opening_cash + shift.sales_amount_cash
                      + shift.cash_in - shift.cash_out) * MillsPerCent)
    IN  [shift_id |-> shift.shift_id,
         expected_cash_balance |-> expected_cash_balance,
         cash_discrepancy |->
            IF shift.closing_cash # NULL
            THEN <<Round2((shift.closing_cash - expected_cash_balance) * MillsPerCent)>>
            ELSE <<>>]

\* GET /shift-summary/:shift_id: one SELECT of the committed row; no row:
\* 404.
shiftSummary(s) ==
    /\ Accept /\ poolFree > 0
    /\ nops' = nops + 1
    /\ LET rows == {r \in cashier_shifts : r.shift_id = s}
       IN  last' = IF rows = {}
                   THEN Response("shiftSummary", 404, s, "Shift not found.")
                   ELSE [Response("shiftSummary", 200, s, "")
                            EXCEPT !.body = <<ShiftReport(CHOOSE r \in rows : TRUE)>>]
    /\ UNCHANGED <<db, toCompleted, ledger, seq, req, tx, poolFree, deployed>>

(* --------------------------- specifications ---------------------------- *)

\* One item of 0.10: an order of 10 cents.
ItemsTen == <<[item_id |-> 1, quantity |-> 1, unit_price |-> 100]>>

InitPay ==
    /\ EmptyDb
    /\ NoRequests
    /\ deployed \in {"tx", "auth"}

NextPay ==
    \/ createOrder(ItemsTen)
    \/ \E st \in Statuses : setStatus(1, st)
    \/ \E p \in Procs :
          \/ \E m \in {"cash", NonString}, a \in {-5, 0, 5, 10}, c \in {NULL, 1} :
                recordPayment_insert(p, 1, m, a, c)
          \/ recordPayment_shift(p)
          \/ recordPayment_readFinal(p)
          \/ recordPayment_readSum(p)
          \/ recordPayment_status(p)
          \/ recordPayment_commit(p)

SpecPay == InitPay /\ [][NextPay]_vars

(* Orders, one request at a time.  Prices of 0.10 and of half a cent. *)

ItemsHalfCents == <<[item_id |-> 1, quantity |-> 1, unit_price |-> 5],
                    [item_id |-> 2, quantity |-> 1, unit_price |-> 5]>>
ItemsUnknown == <<[item_id |-> 3, quantity |-> 1, unit_price |-> 100]>>
\* A known item followed by an unknown one.
ItemsSecondUnknown == <<[item_id |-> 1, quantity |-> 1, unit_price |-> 100],
                        [item_id |-> 3, quantity |-> 1, unit_price |-> 100]>>
\* Two at 5.00 and one at 3.50.
ItemsScenarioA == <<[item_id |-> 1, quantity |-> 2, unit_price |-> 5000],
                    [item_id |-> 2, quantity |-> 1, unit_price |-> 3500]>>
\* The item lists of the createOrder requests.
CreateInputs == {<<>>, ItemsTen, ItemsHalfCents, ItemsUnknown, ItemsSecondUnknown,
                 ItemsScenarioA}

InitOrders ==
    /\ EmptyDb
    /\ NoRequests
    /\ deployed = "auth"

\* The discount_id values of the updateOrder requests.
DiscountInputs == {NULL, 1, 2, 3, 4, 5, 6}

NextOrders ==
    \/ AllIdle /\ \E items \in CreateInputs : createOrder(items)
    \/ AllIdle /\ \E o \in 1..2 : deleteOrder(o)
    \/ \E p \in Procs :
          \/ AllIdle /\ \E o \in 1..2, items \in {ItemsTen, ItemsHalfCents, ItemsUnknown},
                           d \in DiscountInputs :
                            updateOrder_deleteItems(p, o, items, d)
          \/ AllIdle /\ \E o \in 1..2, d \in DiscountInputs : updateOrder_readItems(p, o, d)
          \/ updateOrder_insertItems(p)
          \/ updateOrder_deleteDiscounts(p)
          \/ updateOrder_applyDiscount(p)
          \/ updateOrder_updateOrders(p)
          \/ updateOrder_commit(p)

SpecOrders == InitOrders /\ [][NextOrders]_vars

(* Orders, requests in flight together.  Prices with two decimals. *)

ItemsTwenty == <<[item_id |-> 2, quantity |-> 1, unit_price |-> 200]>>

\* The rows createOrder (one item of 0.10) and then updateOrder with the
\* 10% discount leave behind.
InitConcurrentOrders ==
    /\ orders = {[order_id |-> 1, status |-> "pending", total_amount |-> 10,
                  discount_amount |-> 1, final_amount |-> 9]}
    /\ order_items = ItemRows(1, ItemsTen, 1)
    /\ order_discounts = {[order_discount_id |-> 1, order_id |-> 1,
                           discount_id |-> 1, applied_value |-> 1]}
    /\ payments = {}
    /\ cashier_shifts = {}
    /\ seq = [orders |-> 2, order_items |-> 2, order_discounts |-> 2,
              payments |-> 1, cashier_shifts |-> 1]
    /\ toCompleted = <<0>>
    /\ ledger = {}
    /\ NoRequests
    /\ deployed = "auth"

NextConcurrentOrders ==
    \/ \E o \in 1..2 : deleteOrder(o)
    \/ \E p \in Procs :
          \/ \E items \in {ItemsTen, ItemsTwenty}, d \in {NULL, 1} :
                updateOrder_deleteItems(p, 1, items, d)
          \/ updateOrder_deleteItemsResume(p)
          \/ updateOrder_insertItems(p)
          \/ updateOrder_deleteDiscounts(p)
          \/ updateOrder_deleteDiscountsResume(p)
          \/ updateOrder_applyDiscount(p)
          \/ updateOrder_updateOrders(p)
          \/ updateOrder_commit(p)

SpecConcurrentOrders == InitConcurrentOrders /\ [][NextConcurrentOrders]_vars

(* Shifts and the payments counted into them. *)

\* The rows createOrder (one item of 0.10) leaves behind.
InitShifts ==
    /\ orders = {[order_id |-> 1, status |-> "pending", total_amount |-> 10,
                  discount_amount |-> 0, final_amount |-> 10]}
    /\ order_items = ItemRows(1, ItemsTen, 1)
    /\ order_discounts = {}
    /\ payments = {}
    /\ cashier_shifts = {}
    /\ seq = [orders |-> 2, order_items |-> 2, order_discounts |-> 1,
              payments |-> 1, cashier_shifts |-> 1]
    /\ toCompleted = <<0>>
    /\ ledger = {}
    /\ NoRequests
    /\ deployed = "auth"

\* Request bodies of PUT /api/shifts/:id.
Adjustments ==
    { [opening_cash |-> NULL, closing_cash |-> NULL, cash_in |-> 50,
       cash_out |-> 20, reconciled |-> 1, notes |-> NULL] }

NextShifts ==
    \/ \E s \in 1..2 : endShift(s, 100, NULL)
    \/ \E s \in 1..2, f \in Adjustments : adjustShift(s, f)
    \/ deleteOrder(1)
    \/ \E p \in Procs :
          \/ startShift_check(p, 1, 100)
          \/ startShift_insert(p)
          \/ \E m \in Methods, a \in {-5, 5} : recordPayment_insert(p, 1, m, a, 1)
          \/ recordPayment(p)

SpecShifts == InitShifts /\ [][NextShifts]_vars

(* Shifts and their summary report. *)

\* Request bodies of PUT /api/shifts/:id, one of them with closing_cash.
ReportAdjustments ==
    Adjustments \cup
    { [opening_cash |-> NULL, closing_cash |-> 120, cash_in |-> NULL,
       cash_out |-> NULL, reconciled |-> NULL, notes |-> NULL] }

NextReports ==
    \/ \E s \in 1..2, closing_cash \in {90, 110} : endShift(s, closing_cash, NULL)
    \/ \E s \in 1..2, f \in ReportAdjustments : adjustShift(s, f)
    \/ \E s \in 1..2 : shiftSummary(s)
    \/ \E p \in Procs :
          \/ startShift_check(p, 1, 100)
          \/ startShift_insert(p)
          \/ recordPayment_insert(p, 1, "cash", 5, 1)
          \/ recordPayment(p)

SpecReports == InitShifts /\ [][NextReports]_vars

(* Payments against a pool with as many connections as request slots. *)

\* The pool size of this specification: one connection per request slot
\* (new Pool({ max: N }) with N requests in flight at once).
PoolSlots == Cardinality(Procs)

\* The rows createOrder (one item of 0.10) leaves behind; no request in
\* flight, every connection of the pool idle.
InitPool ==
    /\ orders = {[order_id |-> 1, status |-> "pending", total_amount |-> 10,
                  discount_amount |-> 0, final_amount |-> 10]}
    /\ order_items = ItemRows(1, ItemsTen, 1)
    /\ order_discounts = {}
    /\ payments = {}
    /\ cashier_shifts = {}
    /\ seq = [orders |-> 2, order_items |-> 2, order_discounts |-> 1,
              payments |-> 1, cashier_shifts |-> 1]
    /\ toCompleted = <<0>>
    /\ ledger = {}
    /\ req = [p \in Procs |-> IdleReq]
    /\ tx = [p \in Procs |-> EmptyTx]
    /\ poolFree = PoolSlots
    /\ nops = 0
    /\ last = NoResponse
    /\ deployed \in {"tx", "auth"}

NextPool ==
    \/ \E st \in Statuses : setStatus(1, st)
    \/ \E p \in Procs :
          \/ \E a \in {0, 5, 10} : recordPayment_insert(p, 1, "cash", a, NULL)
          \/ recordPayment_readFinal(p)
          \/ recordPayment_readSum(p)
          \/ recordPayment_status(p)
          \/ recordPayment_commit(p)

\* Every continuation of a handler runs once the promise it awaits is
\* settled: a step that stays enabled is taken.  Requests arrive as the
\* clients please.
FairPool ==
    \A p \in Procs :
        /\ WF_vars(recordPayment_readFinal(p))
        /\ WF_vars(recordPayment_readSum(p))
        /\ WF_vars(recordPayment_status(p))
        /\ WF_vars(recordPayment_commit(p))

SpecPool == InitPool /\ [][NextPool]_vars /\ FairPool

(* Orders with items, a discount and a payment: status changes, deletion. *)

\* The rows createOrder (one item of 0.10), updateOrder with the 10%
\* discount, recordPayment of 0.05 without cashier_id, and createOrder (one
\* item of 0.20) leave behind.
InitLifecycle ==
    /\ orders = {[order_id |-> 1, status |-> "pending", total_amount |-> 10,
                  discount_amount |-> 1, final_amount |-> 9],
                 [order_id |-> 2, status |-> "pending", total_amount |-> 20,
                  discount_amount |-> 0, final_amount |-> 20]}
    /\ order_items = ItemRows(1, ItemsTen, 1) \cup ItemRows(2, ItemsTwenty, 2)
    /\ order_discounts = {[order_discount_id |-> 1, order_id |-> 1,
                           discount_id |-> 1, applied_value |-> 1]}
    /\ payments = {[payment_id |-> 1, order_id |-> 1, payment_method |-> "cash",
                    amount |-> 5, cashier_id |-> NULL]}
    /\ cashier_shifts = {}
    /\ seq = [orders |-> 3, order_items |-> 3, order_discounts |-> 2,
              payments |-> 2, cashier_shifts |-> 1]
    /\ toCompleted = <<0, 0>>
    /\ ledger = {[payment_id |-> 1, order_id |-> 1, payment_method |-> "cash",
                  amount |-> 5, cashier_id |-> NULL, shifts |-> {}, overlap |-> {}]}
    /\ NoRequests
    /\ deployed \in {"tx", "auth"}

NextLifecycle ==
    \/ \E o \in 1..3, st \in Statuses : setStatus(o, st)
    \/ \E o \in 1..3 : deleteOrder(o)
    \/ createOrder(ItemsTen)
    \/ \E p \in Procs :
          \/ \E d \in {NULL, 2} : updateOrder_readItems(p, 1, d)
          \/ updateOrder_deleteDiscounts(p)
          \/ updateOrder_deleteDiscountsResume(p)
          \/ updateOrder_applyDiscount(p)
          \/ updateOrder_updateOrders(p)
          \/ updateOrder_commit(p)
          \/ \E o \in 1..2 : recordPayment_insert(p, o, "cash", 4, NULL)
          \/ recordPayment_readFinal(p)
          \/ recordPayment_readSum(p)
          \/ recordPayment_status(p)
          \/ recordPayment_commit(p)

SpecLifecycle == InitLifecycle /\ [][NextLifecycle]_vars

(* ------------------------- claims: recordPayment ----------------------- *)

\* The order of the payment the latest response is about.
PaidOrder == {e.order_id : e \in {l \in ledger : l.payment_id = last.id}}

\* recordPayment has just answered 201: its COMMIT is the latest change of
\* the committed rows.
JustCommitted == last.op = "recordPayment" /\ last.code = 201

FullyPaid(o) == SumField(PaymentsOf(o), "amount") >= OrderOf(o).final_amount

\* C1: right after recordPayment commits for an order, the order's status is
\* completed if and only if the sum of the payments stored for the order
\* is at least the order's final_amount.
C1_CompletedIffPaid ==
    JustCommitted =>
        \A o \in PaidOrder :
            OrderRows(o) # {} =>
                (OrderOf(o).status = "completed" <=> FullyPaid(o))

\* C2: a single recordPayment whose amount equals the final_amount of a
\* pending order without earlier payments leaves the order completed when
\* it commits (the compared sum includes the payment of the same call).
C2_OwnPaymentCounted ==
    JustCommitted =>
        \A o \in PaidOrder :
            ( /\ OrderRows(o) # {}
              /\ toCompleted[o] = 0
              /\ OrderOf(o).status # "cancelled"
              /\ \E r \in payments :
                    /\ PaymentsOf(o) = {r}
                    /\ r.payment_id = last.id
                    /\ r.amount = OrderOf(o).final_amount )
            => OrderOf(o).status = "completed"

\* C3: two recordPayment calls for the same pending order that were in
\* flight together, whose amounts together but neither alone reach
\* final_amount: once both have committed the order is completed, exactly
\* one change of status to completed has happened and both payments are
\* stored.
C3_ConcurrentPaymentsComplete ==
    \A e1, e2 \in ledger :
        ( /\ e1.payment_id # e2.payment_id
          /\ e2.payment_id \in e1.overlap
          /\ e1.order_id = e2.order_id
          /\ JustCommitted /\ last.id \in {e1.payment_id, e2.payment_id}
          /\ OrderRows(e1.order_id) # {}
          /\ OrderOf(e1.order_id).status # "cancelled"
          /\ Ids(PaymentsOf(e1.order_id), "payment_id") \subseteq
                {e1.payment_id, e2.payment_id}
          /\ e1.amount < OrderOf(e1.order_id).final_amount
          /\ e2.amount < OrderOf(e1.order_id).final_amount
          /\ e1.amount + e2.amount >= OrderOf(e1.order_id).final_amount )
        => /\ OrderOf(e1.order_id).status = "completed"
           /\ toCompleted[e1.order_id] = 1
           /\ Ids(PaymentsOf(e1.order_id), "payment_id") =
                 {e1.payment_id, e2.payment_id}

\* A step of the recordPayment call in slot p other than its 201 answer.
PaymentStepWithoutCommit(p) ==
    /\ req[p].op = "recordPayment"
    /\ req'[p] # req[p]
    /\ ~(last' # last /\ last'.op = "recordPayment" /\ last'.code = 201
         /\ last'.id = req[p].id)

\* recordPayment answers with a failure in this step.
PaymentFails ==
    last' # last /\ last'.op = "recordPayment" /\ last'.code # 201

\* C8: a recordPayment call that fails after its transaction has started
\* adds no payments row, changes no shift's sales_amount_cash or
\* sales_amount_card and changes no order status: the committed rows change
\* in no step of the call but the one that answers 201, and the payment of
\* a failed call is never stored.
C8_FailedPaymentRecordsNothing ==
    [][ /\ PaymentFails =>
              /\ UNCHANGED <<payments, cashier_shifts, orders, ledger>>
              /\ last'.id \notin Ids(payments', "payment_id")
        /\ \A p \in Procs :
              PaymentStepWithoutCommit(p) =>
                  UNCHANGED <<payments, cashier_shifts, orders, ledger>>
      ]_vars

\* A call of a cashier with an active shift has failed after its INSERT had
\* succeeded inside the transaction, and payments of other calls are stored.
C8_FailedAfterInsert ==
    /\ last.op = "recordPayment" /\ last.code = 500
    /\ last.err = "toLowerCase is not a function"
    /\ last.id \notin Ids(payments, "payment_id")
    /\ ActiveShiftsOf(1) # {}
    /\ payments # {}

\* C9: recordPayment with amount less than or equal to zero fails with a
\* validation error and records nothing: no payments row, no shift
\* increment, no status change.
C9_NonPositiveAmountIsValidationError ==
    [][ \A p \in Procs, o \in 1..MaxOps, m \in Methods, c \in Users \cup {NULL},
           a \in {-5, 0} :
           recordPayment_insert(p, o, m, a, c) =>
               /\ last'.op = "recordPayment" /\ last'.code = BadRequest
               /\ UNCHANGED <<payments, cashier_shifts, orders, ledger>>
      ]_vars

(* ----------------------------- claims: orders -------------------------- *)

\* C5: after createOrder and updateOrder calls executed one at a time,
\* every stored order's total_amount equals the sum of item_total over the
\* order_items rows stored for that order.
C5_TotalIsSumOfItemTotals ==
    AllIdle =>
        \A r \in orders :
            r.total_amount = SumField(ItemsOf(r.order_id), "item_total")

\* C6: every stored order's final_amount equals its total_amount minus its
\* discount_amount (each held with two decimals), also after updateOrder
\* has applied a percentage discount whose exact value falls on half a cent
\* (total 0.10 with the 25% discount).
C6_FinalIsTotalMinusDiscount ==
    \A r \in orders : r.final_amount = r.total_amount - r.discount_amount

\* The items of a request as order_items would hold them, without the keys.
AsStored(items) ==
    {[item_id |-> items[i].item_id, quantity |-> items[i].quantity,
      unit_price |-> Round2(items[i].unit_price),
      item_total |-> Round2(items[i].quantity * items[i].unit_price)]
        : i \in 1..Len(items)}

StoredItems(rows) ==
    {[item_id |-> r.item_id, quantity |-> r.quantity,
      unit_price |-> r.unit_price, item_total |-> r.item_total] : r \in rows}

\* C7: two updateOrder calls with items for the same order that run
\* concurrently are serialized: when the second of them commits, the
\* order_items rows stored for the order are exactly the items of one of
\* the two calls, and total_amount and final_amount agree with the stored
\* items.
C7_ConcurrentUpdatesSerialized ==
    [][ \A p \in Procs :
          ( /\ updateOrder_commit(p)
            /\ req[p].items # <<>>
            /\ req[p].committed # {} )
          => LET o == req[p].order_id
                 stored == {r \in order_items' : r.order_id = o}
                 row == CHOOSE r \in orders' : r.order_id = o
             IN  /\ \E items \in {req[p].items} \cup req[p].committed :
                       StoredItems(stored) = AsStored(items)
                 /\ row.total_amount = SumField(stored, "item_total")
                 /\ row.final_amount = row.total_amount - row.discount_amount
      ]_vars

(* ----------------------------- claims: shifts -------------------------- *)

\* C4: in every reachable state every user has at most one cashier_shifts
\* row with shift_end = NULL, also when two startShift calls of the same
\* user interleave between the check and the INSERT.
C4_SingleActiveShift ==
    \A u \in Users : Cardinality(ActiveShiftsOf(u)) <= 1

\* The committed payments counted into shift s: made with a cashier_id
\* whose active shifts, when the UPDATE ran, included s.
CountedInto(s) == {e \in ledger : s.shift_id \in e.shifts /\ e.cashier_id = s.user_id}

Together(e1, e2) == e1.payment_id \in e2.overlap \/ e2.payment_id \in e1.overlap

\* C11: when two recordPayment calls counted into the same active shift
\* commit concurrently, the shift's sales total (cash and card together)
\* has grown by both amounts: it is the sum of all payments counted into
\* the shift, none of the increments is lost.
C11_NoIncrementLost ==
    \A s \in cashier_shifts :
        (\E e1, e2 \in CountedInto(s) : e1 # e2 /\ Together(e1, e2))
        => s.sales_amount_cash + s.sales_amount_card
              = SumField(CountedInto(s), "amount")

\* Two payments in flight together have both been counted into one shift.
C11_TwoConcurrentCounted ==
    \E s \in cashier_shifts :
        /\ \E e1, e2 \in CountedInto(s) : e1 # e2 /\ Together(e1, e2)
        /\ s.sales_amount_cash + s.sales_amount_card >= 10

\* The call in slot p has a cashier_id and is about to run its UPDATE of
\* cashier_shifts while the cashier has no active shift.
AtShiftWithoutActive(p) ==
    /\ req[p].op = "recordPayment" /\ req[p].pc = "shift"
    /\ req[p].method # NonString
    /\ ActiveShiftsOf(req[p].cashier_id) = {}

\* The call in slot p has a cashier_id, its UPDATE found no active shift,
\* and it commits in this step.
CommitsWithoutActive(p) ==
    /\ recordPayment_commit(p)
    /\ req[p].cashier_id # NULL
    /\ req[p].active = {}

\* C12: recordPayment with a cashier_id whose user has no active shift goes
\* on after the UPDATE that finds no row, commits its payments row, changes
\* no cashier_shifts row, and has made the completion check: a call that no
\* other payment of the order ran together with leaves the order completed
\* exactly when it was completed before or the sum it read reached
\* final_amount.
C12_NoShiftStillRecorded ==
    [][ \A p \in Procs :
          /\ (AtShiftWithoutActive(p) /\ recordPayment_shift(p)) =>
                /\ req'[p].op = "recordPayment" /\ req'[p].pc = "readFinal"
                /\ tx'[p].payments = tx[p].payments
                /\ tx'[p].cashier_shifts = {}
          /\ CommitsWithoutActive(p) =>
                /\ last'.code = 201
                /\ \E r \in payments' \ payments :
                      /\ r.payment_id = req[p].id /\ r.amount = req[p].amount
                      /\ r.cashier_id = req[p].cashier_id
                /\ cashier_shifts' = cashier_shifts
                /\ req[p].final = OrderOf(req[p].order_id).final_amount
                /\ req[p].overlap = {} =>
                      \A r \in orders' :
                          r.order_id = req[p].order_id =>
                              (r.status = "completed" <=>
                                  \/ OrderOf(r.order_id).status = "completed"
                                  \/ TotalPaid(p, r.order_id) >= req[p].final)
      ]_vars

\* A payment of a cashier without an active shift is stored, and its
\* completion check has completed the order.
C12_RecordedWithoutShift ==
    /\ cashier_shifts = {}
    /\ \E e \in ledger : e.cashier_id = 1 /\ e.shifts = {} /\ e.payment_id = last.id
    /\ JustCommitted
    /\ \E r \in orders : r.status = "completed"

\* C13: startShift for a user its SELECT finds an active shift of answers
\* 400 'User already has an active shift.' and neither inserts nor goes on
\* to insert; a startShift whose SELECT finds none goes on to the INSERT,
\* which for an existing user and a given opening_cash adds exactly one row:
\* active, of that user, with the given opening_cash and with
\* sales_amount_cash, sales_amount_card, cash_in and cash_out all zero.
C13_StartShift ==
    [][ \A p \in Procs :
          /\ \A u \in Users :
                (\E opening \in {100} : startShift_check(p, u, opening)) =>
                    /\ cashier_shifts' = cashier_shifts
                    /\ IF ActiveShiftsOf(u) # {}
                       THEN /\ last' = Response("startShift", BadRequest, u,
                                                "User already has an active shift.")
                            /\ req' = req
                       ELSE /\ req'[p].op = "startShift" /\ req'[p].pc = "insert"
                            /\ req'[p].user_id = u
          /\ (/\ startShift_insert(p)
              /\ req[p].user_id \in Users /\ req[p].opening_cash # NULL) =>
                /\ last'.op = "startShift" /\ last'.code = 201
                /\ \E r \in cashier_shifts' \ cashier_shifts :
                      /\ cashier_shifts' = cashier_shifts \cup {r}
                      /\ r.shift_id = last'.id
                      /\ r.user_id = req[p].user_id
                      /\ r.shift_end = NULL
                      /\ r.opening_cash = req[p].opening_cash
                      /\ r.sales_amount_cash = 0 /\ r.sales_amount_card = 0
                      /\ r.cash_in = 0 /\ r.cash_out = 0
      ]_vars

\* A shift was started and a second startShift of the same user has been
\* turned away.
C13_SecondStartRejected ==
    /\ last.op = "startShift" /\ last.code = BadRequest
    /\ \E r \in ActiveShiftsOf(last.id) : r.opening_cash = 100
    /\ Cardinality(cashier_shifts) = 1

\* The shifts with id s that are still active.
ActiveShift(s) == {r \in cashier_shifts : r.shift_id = s /\ r.shift_end = NULL}

\* C14: endShift on a shift that is closed or does not exist answers 404
\* and changes no row of any table: the shift_end and closing_cash the
\* first endShift stored stay as they are.
C14_EndShiftOnce ==
    [][ \A s \in 1..2 :
          (ActiveShift(s) = {} /\ endShift(s, 100, NULL)) =>
              /\ last' = Response("endShift", 404, s, "")
              /\ cashier_shifts' = cashier_shifts
              /\ UNCHANGED db
      ]_vars

\* A closed shift, on which a second endShift has answered 404.
C14_SecondEndRejected ==
    /\ last.op = "endShift" /\ last.code = 404
    /\ \E r \in cashier_shifts :
          r.shift_id = last.id /\ r.shift_end # NULL /\ r.closing_cash = 100

\* C15: in every step of startShift, endShift, adjustShift and
\* recordPayment a closed shift stays a row with the shift_end it had; a
\* shift that becomes closed does so in a step of endShift that answers 200
\* for it; and adjustShift answers 200 for every stored shift, active or
\* closed, and 404 only for an id that is not stored.
C15_ClosedStaysClosed ==
    [][ /\ \A r \in cashier_shifts :
              r.shift_end # NULL =>
                  \E r2 \in cashier_shifts' :
                      r2.shift_id = r.shift_id /\ r2.shift_end = r.shift_end
        /\ \A r2 \in cashier_shifts' :
              (/\ r2.shift_end # NULL
               /\ \A r \in cashier_shifts :
                     r.shift_id = r2.shift_id => r.shift_end = NULL) =>
                  /\ last' = Response("endShift", 200, r2.shift_id, "")
                  /\ \E r \in ActiveShift(r2.shift_id) :
                        \E cc \in {100} : r2 = [r EXCEPT !.shift_end = r2.shift_end,
                                                         !.closing_cash = cc,
                                                         !.notes = NULL]
        /\ \A s \in 1..2, f \in Adjustments :
              adjustShift(s, f) =>
                  last' = Response("adjustShift",
                                   IF \E r \in cashier_shifts : r.shift_id = s
                                   THEN 200 ELSE 404, s, "")
      ]_vars

\* adjustShift has answered 200 for a closed shift, which is still closed
\* and carries the adjusted cash_in.
C15_ClosedShiftAdjusted ==
    /\ last.op = "adjustShift" /\ last.code = 200
    /\ \E r \in cashier_shifts :
          r.shift_id = last.id /\ r.shift_end # NULL /\ r.cash_in = 50

\* C16: a createOrder whose items hold an item_id that is not in menu_items
\* answers 500 and leaves every table as it was: no orders row, and no
\* order_items row for the items that came before the unknown one.
C16_UnknownItemPersistsNothing ==
    [][ \A items \in CreateInputs :
          (createOrder(items) /\ \E i \in 1..Len(items) : ~Known(items[i])) =>
              /\ last'.op = "createOrder" /\ last'.code = 500
              /\ UNCHANGED db
      ]_vars

\* A createOrder has failed after its orders row and the row of its first
\* item had drawn their ids, and no row is stored.
C16_FailedAfterFirstItem ==
    /\ last.op = "createOrder" /\ last.code = 500
    /\ seq.orders = 2 /\ seq.order_items = 2
    /\ orders = {} /\ order_items = {}

\* The sum of quantity x unit_price over the first n items, in mills.
RECURSIVE ProductSum(_, _)
ProductSum(items, n) ==
    IF n = 0 THEN 0
    ELSE ProductSum(items, n - 1) + items[n].quantity * items[n].unit_price

\* The createOrder of this step has succeeded and has stored, next to the
\* rows that were there, one pending orders row without discount whose
\* total_amount and final_amount are total(the sum of quantity x
\* unit_price), and one order_items row per item whose item_total is
\* each(quantity x unit_price).
StoredAsGiven(items, total(_), each(_)) ==
    LET id == seq.orders
        rows == order_items' \ order_items
    IN  /\ \E r \in orders' \ orders :
              /\ orders' = orders \cup {r}
              /\ r.order_id = id /\ last'.id = id
              /\ r.status = "pending"
              /\ r.total_amount = total(ProductSum(items, Len(items)))
              /\ r.final_amount = r.total_amount
              /\ r.discount_amount = 0
        /\ Cardinality(rows) = Len(items)
        /\ \A i \in 1..Len(items) :
              \E r \in rows :
                  /\ r.order_item_id = seq.order_items + i - 1
                  /\ r.order_id = id
                  /\ r.item_id = items[i].item_id
                  /\ r.quantity = items[i].quantity
                  /\ r.item_total = each(items[i].quantity * items[i].unit_price)

\* A value of the request, exact if it has no more than two decimals.
Exactly(mills) == IF mills % MillsPerCent = 0 THEN mills \div MillsPerCent ELSE NULL

C18_EmptyItemsRejected ==
    [][ createOrder(<<>>) => (last'.code # 201 /\ orders' = orders) ]_vars

\* The sum of quantity x unit_price over stored order_items rows, in cents.
RECURSIVE StoredSum(_)
StoredSum(rows) ==
    IF rows = {} THEN 0
    ELSE LET x == CHOOSE y \in rows : TRUE
         IN  x.quantity * x.unit_price + StoredSum(rows \ {x})

\* C19: an updateOrder without items (or with an empty list), executed with
\* no other request in flight, commits with the order_items rows as they
\* were and with the order's total_amount equal to the sum of quantity x
\* unit_price over the stored rows of the order; the total_amount of an
\* order that has items with a price is not 0 afterwards.
C19_TotalFromStoredItems ==
    [][ \A p \in Procs :
          (updateOrder_commit(p) /\ req[p].items = <<>>) =>
              /\ order_items' = order_items
              /\ last' = Response("updateOrder", 200, req[p].order_id, "")
              /\ \E r \in orders' :
                    /\ r.order_id = req[p].order_id
                    /\ r.total_amount = StoredSum(ItemsOf(r.order_id))
                    /\ (\E x \in ItemsOf(r.order_id) : x.unit_price > 0)
                          => r.total_amount > 0
      ]_vars

\* An order created with two items of 0.005 (stored at 0.01 each, with a
\* total of 0.01) has been updated without items: its total is now 0.02.
C19_RecomputedFromStored ==
    /\ last.op = "updateOrder" /\ last.code = 200
    /\ \E r \in orders :
          /\ r.order_id = last.id
          /\ r.total_amount = 2
          /\ Cardinality(ItemsOf(r.order_id)) = 2
          /\ \A x \in ItemsOf(r.order_id) : x.quantity = 1 /\ x.unit_price = 1

\* The updateOrder in slot p ends in this step with an answer other than
\* 200.
UpdateOrderFails(p) ==
    /\ req[p].op = "updateOrder" /\ req'[p].op = "idle"
    /\ last'.op = "updateOrder" /\ last'.code # 200

\* C20: an updateOrder that fails, because the order does not exist
\* (answered with 404) or because an item_id is unknown, leaves the orders,
\* order_items and order_discounts rows exactly as they were before the
\* call.
C20_FailedUpdateChangesNothing ==
    [][ \A p \in Procs :
          UpdateOrderFails(p) =>
              /\ UNCHANGED <<orders, order_items, order_discounts>>
              /\ tx'[p] = EmptyTx
              /\ (/\ OrderRows(req[p].order_id) = {}
                  /\ \A i \in 1..Len(req[p].items) : Known(req[p].items[i]))
                    => last'.code = 404
      ]_vars

\* The rows of S that refer to order o.
OfOrder(S, o) == {r \in S : r.order_id = o}

\* The time of a request, counted in requests accepted so far, lies in the
\* validity window of discount x.
InWindow(x) ==
    /\ x.valid_from = NULL \/ x.valid_from <= nops
    /\ x.valid_until = NULL \/ nops <= x.valid_until

\* Discount d passes the applicability checks for an order total (cents).
Applicable(d, total) ==
    \E x \in Discounts :
        /\ x.discount_id = d /\ x.is_active /\ InWindow(x)
        /\ x.min_amount_threshold = NULL \/ x.min_amount_threshold <= total

\* C21: an updateOrder with a discount_id whose discount is inactive, or
\* whose validity window does not contain the current time, or whose
\* min_amount_threshold is above the order's total_amount, commits with
\* discount_amount 0, final_amount = total_amount and no order_discounts
\* row for the order, and answers 200.
C21_InapplicableDiscountIgnored ==
    [][ \A p \in Procs :
          (/\ updateOrder_commit(p)
           /\ req[p].discount_id # NULL
           /\ ~Applicable(req[p].discount_id, Round2(req[p].newTotal))) =>
              /\ last'.code = 200
              /\ OfOrder(order_discounts', req[p].order_id) = {}
              /\ \A r \in orders' :
                    r.order_id = req[p].order_id =>
                        r.discount_amount = 0 /\ r.final_amount = r.total_amount
      ]_vars

\* The smaller of two amounts.
Min(a, b) == IF a <= b THEN a ELSE b

\* C22: when updateOrder applies a fixed_amount discount, the stored
\* discount_amount and applied_value are the smaller of the discount's
\* value and the order's total_amount, and final_amount is the rest (0 for
\* a discount larger than the total).
C22_FixedDiscountCapped ==
    [][ \A p \in Procs :
          (/\ updateOrder_commit(p)
           /\ \E x \in ActiveDiscount(req[p].discount_id) :
                 x.discount_type = "fixed_amount") =>
              \A r \in orders' :
                  r.order_id = req[p].order_id =>
                      \E x \in ActiveDiscount(req[p].discount_id) :
                          /\ r.discount_amount = Min(x.value, r.total_amount)
                          /\ \A y \in OfOrder(order_discounts', r.order_id) :
                                y.applied_value = r.discount_amount
                          /\ r.final_amount = r.total_amount - r.discount_amount
      ]_vars

\* total (cents) x value / 100, rounded to cents; value is held in 1/100 %.
PercentOf(total, value) == RoundDiv(total * value, ValueScale * 100)

\* C23: when updateOrder applies an active percentage discount, the stored
\* discount_amount is the total_amount stored by the same update x value /
\* 100 rounded to two decimals, and final_amount is total_amount minus
\* that amount.
C23_PercentageOfNewTotal ==
    [][ \A p \in Procs :
          (/\ updateOrder_commit(p)
           /\ \E x \in ActiveDiscount(req[p].discount_id) :
                 x.discount_type = "percentage") =>
              \E r \in orders' :
                  /\ r.order_id = req[p].order_id
                  /\ r.total_amount = Round2(req[p].newTotal)
                  /\ \E x \in ActiveDiscount(req[p].discount_id) :
                        r.discount_amount = PercentOf(r.total_amount, x.value)
                  /\ r.final_amount = r.total_amount - r.discount_amount
      ]_vars

\* Every order has at most one order_discounts row, and its
\* discount_amount is that row's applied_value, or 0 without a row.
OneDiscountPerOrder ==
    \A r \in orders :
        /\ Cardinality(DiscountsOf(r.order_id)) <= 1
        /\ \A y \in DiscountsOf(r.order_id) : r.discount_amount = y.applied_value
        /\ DiscountsOf(r.order_id) = {} => r.discount_amount = 0

\* C24: with updateOrder calls executed one at a time, after every step
\* each order has at most one order_discounts row and a discount_amount
\* equal to that row's applied_value, or 0 without a row; and an
\* updateOrder without discount_id commits with no order_discounts row for
\* the order and with discount_amount 0.
C24_OneDiscountPerOrder ==
    [][ /\ OneDiscountPerOrder'
        /\ \A p \in Procs :
              (updateOrder_commit(p) /\ req[p].discount_id = NULL) =>
                  /\ OfOrder(order_discounts', req[p].order_id) = {}
                  /\ \E r \in orders' :
                        r.order_id = req[p].order_id /\ r.discount_amount = 0
      ]_vars

\* The discount of an order has been replaced: its one order_discounts row
\* is the second one inserted, and discount_amount is its applied_value.
C24_DiscountReplaced ==
    /\ last.op = "updateOrder" /\ last.code = 200
    /\ \E r \in orders :
          /\ r.order_id = last.id /\ r.discount_amount > 0
          /\ \E y \in DiscountsOf(r.order_id) :
                /\ DiscountsOf(r.order_id) = {y}
                /\ y.order_discount_id = 2
                /\ y.applied_value = r.discount_amount

\* C25: an order that was not completed and is completed after a step has
\* got there in the commit of a recordPayment: no step of createOrder,
\* setStatus, deleteOrder or another operation moves an order into status
\* completed.
C25_CompletedOnlyByPayment ==
    [][ \A r \in orders, r2 \in orders' :
          (/\ r2.order_id = r.order_id
           /\ r.status # "completed" /\ r2.status = "completed") =>
              \E p \in Procs : recordPayment_commit(p)
      ]_vars

\* C26: setStatus with the status the order already has leaves the rows of
\* every table (status, totals, items, discounts, payments) as they are
\* without the call, and answers 200.
C26_SameStatusIsNoOp ==
    [][ \A o \in 1..3, st \in Statuses :
          (/\ setStatus(o, st)
           /\ \E r \in OrderRows(o) : r.status = st) =>
              /\ UNCHANGED db
              /\ last' = Response("setStatus", 200, o, "")
      ]_vars

\* A setStatus 'completed' on the completed order 1 has been answered;
\* the order still has its item, its discount and its payment.
C26_CompletedSetAgain ==
    /\ last = Response("setStatus", 200, 1, "")
    /\ toCompleted[1] = 1
    /\ \E r \in orders :
          /\ r.order_id = 1 /\ r.status = "completed"
          /\ r.total_amount = 10 /\ r.discount_amount = 1 /\ r.final_amount = 9
    /\ ItemsOf(1) # {} /\ DiscountsOf(1) # {} /\ PaymentsOf(1) # {}
    /\ nops = 2

\* C27: setStatus on an existing order, whatever its status, answers 200
\* and stores the given status, with the order's amounts and every other
\* row of every table unchanged; on a missing order it answers 404 and
\* changes nothing.
C27_StatusOverwritten ==
    [][ \A o \in 1..3, st \in Statuses :
          setStatus(o, st) =>
              IF OrderRows(o) = {}
              THEN /\ last' = Response("setStatus", 404, o, "")
                   /\ UNCHANGED db
              ELSE /\ last' = Response("setStatus", 200, o, "")
                   /\ orders' = (orders \ OrderRows(o))
                                  \cup {[r EXCEPT !.status = st] : r \in OrderRows(o)}
                   /\ UNCHANGED <<order_items, order_discounts, payments,
                                  cashier_shifts>>
      ]_vars

\* Order 1, completed before, has been set back to pending, with its
\* amounts, item, discount and payment as they were.
C27_CompletedSetToPending ==
    /\ last = Response("setStatus", 200, 1, "")
    /\ toCompleted[1] = 1
    /\ \E r \in orders :
          /\ r.order_id = 1 /\ r.status = "pending"
          /\ r.total_amount = 10 /\ r.discount_amount = 1 /\ r.final_amount = 9
    /\ ItemsOf(1) # {} /\ DiscountsOf(1) # {} /\ PaymentsOf(1) # {}

\* The rows of set S that do not refer to order o.
NotOf(S, o) == {r \in S : r.order_id # o}

\* C28: a deleteOrder of an existing order answers 200 and leaves no
\* orders, order_items, order_discounts or payments row of that order,
\* while the rows of every other order and the shifts are unchanged; a
\* deleteOrder of a missing order answers 404 and changes nothing.
C28_DeleteCascades ==
    [][ \A o \in 1..3 :
          deleteOrder(o) =>
              IF OrderRows(o) = {}
              THEN /\ last' = Response("deleteOrder", 404, o, "")
                   /\ UNCHANGED db
              ELSE /\ last' = Response("deleteOrder", 200, o, "")
                   /\ orders' = NotOf(orders, o)
                   /\ order_items' = NotOf(order_items, o)
                   /\ order_discounts' = NotOf(order_discounts, o)
                   /\ payments' = NotOf(payments, o)
                   /\ cashier_shifts' = cashier_shifts
      ]_vars

\* Order 1, which had an item, a discount and a payment, has been deleted
\* after a payment of order 2: no row of order 1 is left, and order 2 has
\* its item and its payment.
C28_DeletedWithRows ==
    /\ last = Response("deleteOrder", 200, 1, "")
    /\ seq.payments = 3
    /\ NotOf(orders, 1) = orders /\ NotOf(order_items, 1) = order_items
    /\ order_discounts = {} /\ NotOf(payments, 1) = payments
    /\ OrderRows(2) # {} /\ ItemsOf(2) # {} /\ PaymentsOf(2) # {}

\* C29, as stated: a committed payments row is never updated or deleted:
\* in every step of createOrder, updateOrder, setStatus, deleteOrder and
\* recordPayment every stored payments row stays as it is.
C29_PaymentsAppendOnly ==
    [][ payments \subseteq payments' ]_vars

\* C29, amended: a committed payments row is never updated, and it is
\* removed only by a deleteOrder of the order it refers to; in every other
\* step, and in a deleteOrder of another order, it stays as it is.
C29_PaymentsLeaveOnlyWithOrder ==
    [][ \A r \in payments :
          \/ r \in payments'
          \/ /\ deleteOrder(r.order_id)
             /\ last' = Response("deleteOrder", 200, r.order_id, "")
      ]_vars

\* The payment of order 1 is stored as it was committed, after order 2 was
\* deleted, order 1 got another discount and its status was set.
C29_PaymentKept ==
    /\ last = Response("setStatus", 200, 1, "")
    /\ OrderRows(2) = {}
    /\ \E y \in DiscountsOf(1) : y.discount_id = 2
    /\ [payment_id |-> 1, order_id |-> 1, payment_method |-> "cash",
        amount |-> 5, cashier_id |-> NULL] \in payments

\* The value of a column after an update with v given (NULL: omitted).
Kept(v, column) == IF v = NULL THEN column ELSE v

\* C30: adjustShift on a stored shift answers 200 and changes, in that
\* shift only, the fields given among opening_cash, closing_cash, cash_in,
\* cash_out, reconciled and notes; every omitted field, shift_end,
\* sales_amount_cash and sales_amount_card keep their values; on a missing
\* shift it answers 404 and changes nothing.
C30_PartialUpdate ==
    [][ \A s \in 1..2, f \in Adjustments :
          adjustShift(s, f) =>
              /\ UNCHANGED <<orders, order_items, order_discounts, payments>>
              /\ IF \A r \in cashier_shifts : r.shift_id # s
                 THEN /\ last' = Response("adjustShift", 404, s, "")
                      /\ cashier_shifts' = cashier_shifts
                 ELSE /\ last' = Response("adjustShift", 200, s, "")
                      /\ \A r \in cashier_shifts :
                            \E r2 \in cashier_shifts' :
                                /\ r2.shift_id = r.shift_id
                                /\ r.shift_id # s => r2 = r
                                /\ r2.user_id = r.user_id
                                /\ r2.shift_end = r.shift_end
                                /\ r2.sales_amount_cash = r.sales_amount_cash
                                /\ r2.sales_amount_card = r.sales_amount_card
                                /\ r.shift_id = s =>
                                      /\ r2.opening_cash = Kept(f.opening_cash, r.opening_cash)
                                      /\ r2.closing_cash = Kept(f.closing_cash, r.closing_cash)
                                      /\ r2.cash_in = Kept(f.cash_in, r.cash_in)
                                      /\ r2.cash_out = Kept(f.cash_out, r.cash_out)
                                      /\ r2.notes = Kept(f.notes, r.notes)
                                      /\ r2.reconciled = IF f.reconciled = NULL
                                                         THEN r.reconciled
                                                         ELSE f.reconciled = 1
                      /\ Cardinality(cashier_shifts') = Cardinality(cashier_shifts)
      ]_vars

\* A closed shift has been adjusted: cash_in, cash_out and reconciled are
\* as given, opening_cash, closing_cash and shift_end are as they were.
C30_ClosedShiftPartlyAdjusted ==
    /\ last.op = "adjustShift" /\ last.code = 200
    /\ \E r \in cashier_shifts :
          /\ r.shift_id = last.id
          /\ r.cash_in = 50 /\ r.cash_out = 20 /\ r.reconciled
          /\ r.opening_cash = 100 /\ r.closing_cash = 100
          /\ r.shift_end # NULL

\* The cash a shift should hold, in cents.
ExpectedCash(r) == r.opening_cash + r.sales_amount_cash + r.cash_in - r.cash_out

C32_FinalNeverNegative ==
    \A r \in orders : r.final_amount >= 0

\* C33: a recordPayment that reads inside its transaction and runs
\* together with no other payment of the order leaves the order completed
\* at its commit whenever the sum of the order's payments, its own
\* included, is at least the final_amount committed at that moment, also
\* when an updateOrder of the order has committed while it was in flight.
C33_DecisionAtCommit ==
    [][ \A p \in Procs :
          (/\ recordPayment_commit(p)
           /\ deployed = "tx"
           /\ req[p].overlap = {}
           /\ OrderRows(req[p].order_id) # {}
           /\ SumField(OfOrder(payments', req[p].order_id), "amount")
                 >= OrderOf(req[p].order_id).final_amount) =>
              \A r \in orders' :
                  r.order_id = req[p].order_id => r.status = "completed"
      ]_vars

\* C34: no step of updateOrder changes the status of any order: the
\* statuses committed after its COMMIT are the statuses committed before
\* it, also when the new final_amount lies above or below the sum paid.
C34_UpdateKeepsStatus ==
    [][ \A p \in Procs :
          (req[p].op = "updateOrder" /\ req'[p] # req[p]) =>
              /\ Ids(orders', "order_id") = Ids(orders, "order_id")
              /\ \A r \in orders : \A n \in orders' :
                    n.order_id = r.order_id => n.status = r.status
      ]_vars

\* C34 witness: an updateOrder has answered 200 for order 1, which is
\* completed although its payments are below its new final_amount.
C34_CompletedBelowFinal ==
    /\ last.op = "updateOrder" /\ last.code = 200 /\ last.id = 1
    /\ \E r \in orders :
          /\ r.order_id = 1 /\ r.status = "completed"
          /\ SumField(PaymentsOf(1), "amount") < r.final_amount

\* C35: the COMMIT of a recordPayment leaves every completed order
\* completed and changes no status to anything but completed; when the
\* payments the handler counts stay below the final_amount it has read,
\* the COMMIT changes no status at all.
C35_PaymentNeverDowngrades ==
    [][ \A p \in Procs :
          recordPayment_commit(p) =>
              /\ Ids(orders', "order_id") = Ids(orders, "order_id")
              /\ \A r \in orders : \A n \in orders' :
                    n.order_id = r.order_id =>
                        /\ n.status \in {r.status, "completed"}
                        /\ r.status = "completed" => n.status = "completed"
                        /\ TotalPaid(p, req[p].order_id) < req[p].final =>
                               n.status = r.status
      ]_vars

\* C35 witness: a further payment has been recorded against an order that
\* an earlier payment of at least final_amount had left behind, and the
\* order is completed.
C35_PaidOnCompleted ==
    /\ last.op = "recordPayment" /\ last.code = 201
    /\ \E r \in orders : \E a \in PaymentsOf(r.order_id) :
          \E b \in PaymentsOf(r.order_id) :
              /\ r.status = "completed"
              /\ a.payment_id < b.payment_id
              /\ a.amount >= r.final_amount
              /\ b.payment_id = last.id

\* C36: a recordPayment that no other payment of the order overlaps and
\* whose order keeps the final_amount it has read leaves the order
\* completed at its COMMIT whenever the order's payments, its own
\* included, reach that final_amount, whatever the status was before
\* (pending, cancelled or any other).
C36_CompletesFromAnyStatus ==
    [][ \A p \in Procs :
          (/\ recordPayment_commit(p)
           /\ req[p].overlap = {}
           /\ OrderRows(req[p].order_id) # {}
           /\ OrderOf(req[p].order_id).final_amount = req[p].final
           /\ SumField(OfOrder(payments', req[p].order_id), "amount")
                 >= req[p].final) =>
              \A r \in orders' :
                  r.order_id = req[p].order_id => r.status = "completed"
      ]_vars

\* C37: no step of recordPayment, startShift, endShift or adjustShift
\* removes a shift or lowers its sales_amount_cash or sales_amount_card.
C37_SalesNeverDecrease ==
    [][ \A r \in cashier_shifts :
          \E n \in cashier_shifts' :
              /\ n.shift_id = r.shift_id
              /\ n.sales_amount_cash >= r.sales_amount_cash
              /\ n.sales_amount_card >= r.sales_amount_card
      ]_vars

\* C37 witness: a shift that has counted a cash sale has been ended and
\* still holds the sale.
C37_SalesKeptThroughClose ==
    /\ last.op = "endShift" /\ last.code = 200
    /\ \E r \in cashier_shifts :
          /\ r.shift_id = last.id
          /\ r.shift_end # NULL
          /\ r.sales_amount_cash = 5

\* C38: every active shift (shift_end unset) has closing_cash unset, and
\* a shift summary answered for an active shift carries no discrepancy.
C38_OpenShiftHasNoClosingCash ==
    /\ \A r \in cashier_shifts : r.shift_end = NULL => r.closing_cash = NULL
    /\ (last.op = "shiftSummary" /\ last.code = 200) =>
          \A r \in cashier_shifts :
              (r.shift_id = last.id /\ r.shift_end = NULL) =>
                  last.body[1].cash_discrepancy = <<>>

\* C39: no step changes sales_amount_cash or sales_amount_card of a shift
\* whose shift_end is set, and no step clears a shift_end, also when
\* endShift and recordPayment of the same cashier run together; a
\* committed payment is counted in shifts that were active when its
\* UPDATE ran, or in none.
C39_ClosedShiftNotCounted ==
    [][ /\ \A r \in cashier_shifts : \A n \in cashier_shifts' :
             (n.shift_id = r.shift_id /\ r.shift_end # NULL) =>
                 /\ n.sales_amount_cash = r.sales_amount_cash
                 /\ n.sales_amount_card = r.sales_amount_card
                 /\ n.shift_end = r.shift_end
        /\ \A p \in Procs :
             recordPayment_commit(p) =>
                 \A s \in req[p].active :
                     \E r \in cashier_shifts : r.shift_id = s /\ r.shift_end = NULL
      ]_vars

\* C39 witness: endShift has closed the cashier's shift while a payment
\* of that cashier was in flight; the payment is committed, counted in no
\* shift, and the closed shift holds no sale.
C39_ClosedWhilePaying ==
    /\ last.op = "recordPayment" /\ last.code = 201
    /\ \E r \in cashier_shifts :
          /\ r.shift_end = 3
          /\ r.sales_amount_cash = 0 /\ r.sales_amount_card = 0
    /\ \E l \in ledger :
          l.payment_id = last.id /\ l.cashier_id = 1 /\ l.shifts = {}

\* C40: with a pool of as many connections as there are requests in
\* flight, every recordPayment that has taken its connection eventually
\* ends (COMMIT or ROLLBACK) and gives the connection back.
C40_PaymentsFinish ==
    \A p \in Procs :
        (req[p].op = "recordPayment") ~> (req[p].op = "idle" /\ tx[p] = EmptyTx)

====
